---- MODULE Spec2Model ----
(***************************************************************************)
(* Model of src/sales_data_dashboard.py: a Streamlit script that builds a  *)
(* synthetic sales table once (cached), and on every widget interaction    *)
(* re-runs main(): apply_filters -> calculate_kpis -> display_kpis ->      *)
(* create_visualizations.                                                  *)
(*                                                                         *)
(* Numbers.  Python floats are modelled as exact rationals <<n, d>> in     *)
(* lowest terms with d > 0; <<0, 0>> is NaN.  Integers stay integers.      *)
(* Dates.  A datetime is <<day, secs>>, day counted from 2024-01-01 (the   *)
(* generator's `start`); a date is the day number alone.                   *)
(***************************************************************************)
EXTENDS Integers, Sequences, FiniteSets, TLC

VARIABLES
    pc,           \* "generate": inside generate_sales_data; "idle": a run of main() has ended
    records,      \* the list `records` built by the generator's loop
    cache,        \* st.cache_data entry of generate_sales_data(n): <<>> or <<df>>
    main_df,      \* main's df as the last run left it (what "Download Full Dataset" holds)
    widgets,      \* session state of the sidebar widgets
    date_range,   \* apply_filters' date_range of the last run, after its try/except
    filtered_df,  \* main's filtered_df of the last run
    kpis,         \* main's kpis of the last run
    rollups,      \* the grouped tables create_visualizations computed in the last run
    ui,           \* the elements the last run emitted to the page, in order
    raised        \* TRUE iff the last run ended with an uncaught exception

vars == <<pc, records, cache, main_df, widgets, date_range, filtered_df, kpis, rollups, ui, raised>>

----------------------------------------------------------------------------
(* Bounds *)

\* The n of generate_sales_data(n), scaled down from 5000.
NumRecords == 3

----------------------------------------------------------------------------
(* Rational arithmetic standing for Python/NumPy float arithmetic *)

NaN == <<0, 0>>

Abs(x) == IF x < 0 THEN -x ELSE x

RECURSIVE GCD(_, _)
GCD(a, b) == IF b = 0 THEN a ELSE GCD(b, a % b)

\* n / d as a float: division by zero yields NaN (NumPy), never an exception.
Rat(n, d) ==
    IF d = 0 THEN NaN
    ELSE LET s == IF d < 0 THEN -1 ELSE 1
             g == GCD(Abs(n), Abs(d))
         IN  <<(s * n) \div g, (s * d) \div g>>

Float(n) == <<n, 1>>

IsNaN(a) == a[2] = 0

RatAdd(a, b) == IF IsNaN(a) \/ IsNaN(b) THEN NaN
                ELSE Rat(a[1] * b[2] + b[1] * a[2], a[2] * b[2])

RatSub(a, b) == IF IsNaN(a) \/ IsNaN(b) THEN NaN
                ELSE Rat(a[1] * b[2] - b[1] * a[2], a[2] * b[2])

RatMul(a, b) == IF IsNaN(a) \/ IsNaN(b) THEN NaN
                ELSE Rat(a[1] * b[1], a[2] * b[2])

RatDiv(a, b) == IF IsNaN(a) \/ IsNaN(b) THEN NaN
                ELSE Rat(a[1] * b[2], a[2] * b[1])

\* a < b on floats; every comparison with NaN is False.
RatLess(a, b) == ~IsNaN(a) /\ ~IsNaN(b) /\ a[1] * b[2] < b[1] * a[2]

----------------------------------------------------------------------------
(* generate_sales_data *)

categories == <<"Electronics", "Clothing", "Home", "Beauty", "Sports">>
regions    == <<"North", "South", "East", "West">>

\* Python's sorted() on the category and region names.
SortedCategories == <<"Beauty", "Clothing", "Electronics", "Home", "Sports">>
SortedRegions    == <<"East", "North", "South", "West">>

\* Days in the months of 2024 that the generator's 180 days reach.
MonthLengths == <<31, 29, 31, 30, 31, 30>>
MonthNames   == <<"2024-01", "2024-02", "2024-03", "2024-04", "2024-05", "2024-06">>

RECURSIVE MonthIndex(_, _)
MonthIndex(day, m) ==
    IF m >= Len(MonthLengths) \/ day < MonthLengths[m] THEN m
    ELSE MonthIndex(day - MonthLengths[m], m + 1)

\* df['date'].dt.to_period('M').astype(str)
ToPeriodM(dt) == MonthNames[MonthIndex(dt[1], 1)]

\* .dt.date / .date(): the calendar day of a datetime, its time of day dropped.
DtDate(dt) == dt[1]

\* df['returned'].map({0: 'Not Returned', 1: 'Returned'})
ReturnStatusMap(returned) == IF returned = 1 THEN "Returned" ELSE "Not Returned"

\* The joint outcomes of one loop iteration's np.random draws that the model
\* explores (category, region, days after `start`, price, quantity, discount,
\* returned): those of the three-record scenario, 2024-01-05, 2024-01-10 and
\* 2024-02-01.
Scenario ==
    << [category |-> "Electronics", region |-> "North", days |-> 4,  price |-> 100,
        quantity |-> 2, discount |-> Rat(1, 10), returned |-> 0],
       [category |-> "Clothing",    region |-> "South", days |-> 9,  price |-> 50,
        quantity |-> 1, discount |-> Rat(0, 10), returned |-> 1],
       [category |-> "Electronics", region |-> "East",  days |-> 31, price |-> 200,
        quantity |-> 1, discount |-> Rat(2, 10), returned |-> 0] >>

Draws == {Scenario[i] : i \in 1..Len(Scenario)}

\* One iteration of the loop: the dict appended to `records`.
MakeRecord(i, d) ==
    [sale_id  |-> i + 1,
     category |-> d.category,
     region   |-> d.region,
     date     |-> <<d.days, 0>>,
     price    |-> d.price,
     quantity |-> d.quantity,
     discount |-> d.discount,
     revenue  |-> RatMul(RatMul(Float(d.price), Float(d.quantity)), RatSub(Float(1), d.discount)),
     returned |-> d.returned]

\* pd.DataFrame(records) with the two derived columns added.
MakeDataFrame(recs) ==
    [i \in 1..Len(recs) |->
        [sale_id  |-> recs[i].sale_id,
         category |-> recs[i].category,
         region   |-> recs[i].region,
         date     |-> recs[i].date,
         price    |-> recs[i].price,
         quantity |-> recs[i].quantity,
         discount |-> recs[i].discount,
         revenue  |-> recs[i].revenue,
         returned |-> recs[i].returned,
         month         |-> ToPeriodM(recs[i].date),
         return_status |-> ReturnStatusMap(recs[i].returned)]]

----------------------------------------------------------------------------
(* pandas primitives used by the script *)

\* Boolean-mask indexing df[mask] keeps the rows whose mask entry is True, in
\* their order: SelectSeq.

RECURSIVE SumCol(_, _)
\* df[col].sum() of an integer column
SumCol(df, col) == IF df = <<>> THEN 0 ELSE df[1][col] + SumCol(Tail(df), col)

RECURSIVE SumRatCol(_, _)
\* df[col].sum() of a float column
SumRatCol(df, col) ==
    IF df = <<>> THEN Float(0) ELSE RatAdd(df[1][col], SumRatCol(Tail(df), col))

\* df[col].mean() of a float column; NaN on an empty column
MeanRatCol(df, col) == RatDiv(SumRatCol(df, col), Float(Len(df)))

\* df[col].unique(): the distinct values of a column
Unique(df, col) == {df[i][col] : i \in 1..Len(df)}

Min(S) == CHOOSE x \in S : \A y \in S : x <= y
Max(S) == CHOOSE x \in S : \A y \in S : x >= y

\* df['date'].min() / .max() on the datetime column
DateMin(df) == CHOOSE x \in Unique(df, "date") :
                  \A y \in Unique(df, "date") : x[1] < y[1] \/ (x[1] = y[1] /\ x[2] <= y[2])
DateMax(df) == CHOOSE x \in Unique(df, "date") :
                  \A y \in Unique(df, "date") : y[1] < x[1] \/ (x[1] = y[1] /\ y[2] <= x[2])

----------------------------------------------------------------------------
(* apply_filters *)

\* The value st.sidebar.date_input hands back, by shape:
\*   [kind |-> "tuple",  v |-> <<>> | <<d>> | <<lo, hi>>]   a tuple of 0, 1 or 2 dates
\*   [kind |-> "date",   v |-> <<d>>]                       a bare date, no tuple
\*   [kind |-> "raises", v |-> <<>>]                        the call raises
IsListOrTuple(raw) == raw.kind = "tuple"

\* NormalizeDateRange falling back to the whole range for every value that is
\* not a pair.
NormalizeDateRange_fallback(raw, min_date, max_date) ==
    IF IsListOrTuple(raw) /\ Len(raw.v) = 2 THEN raw
    ELSE [kind |-> "tuple", v |-> <<min_date, max_date>>]

\* The try/except around date_input: the date_range the filter then uses, in
\* the same representation (the code leaves it a tuple in every branch).
NormalizeDateRange(raw, min_date, max_date) ==
    IF raw.kind = "raises" THEN [kind |-> "tuple", v |-> <<min_date, max_date>>]
    ELSE IF IsListOrTuple(raw) /\ Len(raw.v) = 1
    THEN [kind |-> "tuple", v |-> <<raw.v[1], raw.v[1]>>]
    ELSE IF ~IsListOrTuple(raw)
    THEN [kind |-> "tuple", v |-> <<raw.v[1], raw.v[1]>>]
    ELSE raw

\* DateInRange with the two bounds swapped.
DateInRange_swapped(d, range) == d >= range[2] /\ d <= range[1]

\* (date >= date_range[0]) & (date <= date_range[1])
DateInRange(d, range) == d >= range[1] /\ d <= range[2]

\* PriceInRange with the lower bound open.
PriceInRange_open(p, min_price, max_price) == p > min_price /\ p <= max_price

\* (price >= min_price) & (price <= max_price)
PriceInRange(p, min_price, max_price) == p >= min_price /\ p <= max_price

\* The date branch of the filter, on the normalised date_range.
FilterDate(fdf, range) ==
    IF Len(range) >= 2
    THEN SelectSeq(fdf, LAMBDA r : DateInRange(DtDate(r.date), range))
    ELSE IF Len(range) = 1
    THEN SelectSeq(fdf, LAMBDA r : DtDate(r.date) = range[1])
    ELSE fdf

\* FilterPredicates working on a copy that starts at the second row
\* (df.iloc[1:] for df.copy()).
FilterPredicates_dropfirst(df, selected_category, selected_region, range, min_price, max_price, selected_return) ==
    LET copy == IF df = <<>> THEN df ELSE Tail(df)
        f1 == IF selected_category # "All"
              THEN SelectSeq(copy, LAMBDA r : r.category = selected_category) ELSE copy
        f2 == IF selected_region # "All"
              THEN SelectSeq(f1, LAMBDA r : r.region = selected_region) ELSE f1
        f3 == FilterDate(f2, range)
        f4 == SelectSeq(f3, LAMBDA r : PriceInRange(r.price, min_price, max_price))
        f5 == IF selected_return # "All"
              THEN SelectSeq(f4, LAMBDA r : r.return_status = selected_return) ELSE f4
    IN  f5

\* "Apply filters": the five predicates in the order of the code, on a copy of df.
FilterPredicates(df, selected_category, selected_region, range, min_price, max_price, selected_return) ==
    LET copy == df
        f1 == IF selected_category # "All"
              THEN SelectSeq(copy, LAMBDA r : r.category = selected_category) ELSE copy
        f2 == IF selected_region # "All"
              THEN SelectSeq(f1, LAMBDA r : r.region = selected_region) ELSE f1
        f3 == FilterDate(f2, range)
        f4 == SelectSeq(f3, LAMBDA r : PriceInRange(r.price, min_price, max_price))
        f5 == IF selected_return # "All"
              THEN SelectSeq(f4, LAMBDA r : r.return_status = selected_return) ELSE f4
    IN  f5

\* apply_filters(df) with the sidebar returning the values w.  len(date_range)
\* raises TypeError on a value that is no list or tuple.
apply_filters(df, w) ==
    LET min_date == DtDate(DateMin(df))
        max_date == DtDate(DateMax(df))
        dr       == NormalizeDateRange(w.date_input, min_date, max_date)
    IN  IF ~IsListOrTuple(dr)
        THEN [raised |-> TRUE, date_range |-> dr.v, df |-> <<>>]
        ELSE [raised |-> FALSE, date_range |-> dr.v,
              df |-> FilterPredicates(df, w.category, w.region, dr.v,
                                      w.price[1], w.price[2], w.return_status)]

----------------------------------------------------------------------------
(* calculate_kpis *)

\* calculate_kpis without its empty-frame branch.
calculate_kpis_unguarded(df) ==
    [total_sales     |-> Len(df),
     total_revenue   |-> SumRatCol(df, "revenue"),
     avg_order_value |-> MeanRatCol(df, "revenue"),
     return_rate     |-> RatMul(RatDiv(Float(SumCol(df, "returned")), Float(Len(df))),
                                Float(100)),
     avg_discount    |-> RatMul(MeanRatCol(df, "discount"), Float(100)),
     total_quantity  |-> SumCol(df, "quantity")]

RECURSIVE GrossRevenue(_)
GrossRevenue(df) ==
    IF df = <<>> THEN Float(0)
    ELSE RatAdd(Float(df[1].price * df[1].quantity), GrossRevenue(Tail(df)))

\* calculate_kpis with the revenue recomputed as price * quantity, the discount
\* left out, in place of the stored column.
calculate_kpis_gross(df) ==
    IF Len(df) = 0
    THEN [total_sales |-> 0, total_revenue |-> Float(0), avg_order_value |-> Float(0),
          return_rate |-> Float(0), avg_discount |-> Float(0), total_quantity |-> 0]
    ELSE [total_sales     |-> Len(df),
          total_revenue   |-> GrossRevenue(df),
          avg_order_value |-> RatDiv(GrossRevenue(df), Float(Len(df))),
          return_rate     |-> RatMul(RatDiv(Float(SumCol(df, "returned")), Float(Len(df))),
                                     Float(100)),
          avg_discount    |-> RatMul(MeanRatCol(df, "discount"), Float(100)),
          total_quantity  |-> SumCol(df, "quantity")]

calculate_kpis(df) ==
    IF Len(df) = 0
    THEN [total_sales     |-> 0,
          total_revenue   |-> Float(0),
          avg_order_value |-> Float(0),
          return_rate     |-> Float(0),
          avg_discount    |-> Float(0),
          total_quantity  |-> 0]
    ELSE [total_sales     |-> Len(df),
          total_revenue   |-> SumRatCol(df, "revenue"),
          avg_order_value |-> MeanRatCol(df, "revenue"),
          return_rate     |-> RatMul(RatDiv(Float(SumCol(df, "returned")), Float(Len(df))),
                                     Float(100)),
          avg_discount    |-> RatMul(MeanRatCol(df, "discount"), Float(100)),
          total_quantity  |-> SumCol(df, "quantity")]

----------------------------------------------------------------------------
(* Grouped roll-ups of create_visualizations *)

\* The grouping key of a row: a column, the calendar day of `date`, or the
\* (region, category) pair.
KeyOf(r, by) ==
    CASE by = "day"             -> DtDate(r.date)
      [] by = "region_category" -> <<r.region, r.category>>
      [] OTHER                  -> r[by]

KeySet(df, by) == {KeyOf(df[i], by) : i \in 1..Len(df)}

RECURSIVE SortInts(_)
SortInts(S) == IF S = {} THEN <<>> ELSE <<Min(S)>> \o SortInts(S \ {Min(S)})

\* Every (region, category) pair, in lexicographic order of the names.
SortedPairs ==
    [i \in 1..(Len(SortedRegions) * Len(SortedCategories)) |->
        <<SortedRegions[((i - 1) \div Len(SortedCategories)) + 1],
          SortedCategories[((i - 1) % Len(SortedCategories)) + 1]>>]

\* GroupKeys without the last of the keys that occur.
GroupKeys_droplast(df, by) ==
    LET ks == KeySet(df, by)
        keys == CASE by = "day"             -> SortInts(ks)
                  [] by = "category"        -> SelectSeq(SortedCategories, LAMBDA k : k \in ks)
                  [] by = "region"          -> SelectSeq(SortedRegions, LAMBDA k : k \in ks)
                  [] by = "month"           -> SelectSeq(MonthNames, LAMBDA k : k \in ks)
                  [] by = "region_category" -> SelectSeq(SortedPairs, LAMBDA k : k \in ks)
    IN  SubSeq(keys, 1, Len(keys) - 1)

\* groupby sorts the group keys (sort=True): the keys that occur, ascending.
GroupKeys(df, by) ==
    LET ks == KeySet(df, by)
    IN  CASE by = "day"             -> SortInts(ks)
          [] by = "category"        -> SelectSeq(SortedCategories, LAMBDA k : k \in ks)
          [] by = "region"          -> SelectSeq(SortedRegions, LAMBDA k : k \in ks)
          [] by = "month"           -> SelectSeq(MonthNames, LAMBDA k : k \in ks)
          [] by = "region_category" -> SelectSeq(SortedPairs, LAMBDA k : k \in ks)

\* GroupRows that takes every row for the group.
GroupRows_all(df, by, k) == df

\* The rows of one group, in their order.
GroupRows(df, by, k) == SelectSeq(df, LAMBDA r : KeyOf(r, by) = k)

\* df.groupby(by)[col].sum().reset_index() of a float column
GroupBySum(df, by, col) ==
    LET keys == GroupKeys(df, by)
    IN  [i \in 1..Len(keys) |->
            [key |-> keys[i], value |-> SumRatCol(GroupRows(df, by, keys[i]), col)]]

\* df.groupby(by)[col].sum().reset_index() of an integer column
GroupBySumInt(df, by, col) ==
    LET keys == GroupKeys(df, by)
    IN  [i \in 1..Len(keys) |->
            [key |-> keys[i], value |-> Float(SumCol(GroupRows(df, by, keys[i]), col))]]

\* df.groupby(by).size().reset_index()
GroupBySize(df, by) ==
    LET keys == GroupKeys(df, by)
    IN  [i \in 1..Len(keys) |->
            [key |-> keys[i], value |-> Float(Len(GroupRows(df, by, keys[i])))]]

\* df.groupby('category').agg({'revenue': 'sum', 'quantity': 'sum', 'returned': 'sum'})
GroupByAgg(df, by) ==
    LET keys == GroupKeys(df, by)
    IN  [i \in 1..Len(keys) |->
            [key      |-> keys[i],
             revenue  |-> SumRatCol(GroupRows(df, by, keys[i]), "revenue"),
             quantity |-> SumCol(GroupRows(df, by, keys[i]), "quantity"),
             returned |-> SumCol(GroupRows(df, by, keys[i]), "returned")]]

RECURSIVE InsertDesc(_, _)
\* x put behind every row whose value is not smaller: a stable descending order.
InsertDesc(sorted, x) ==
    IF sorted = <<>> THEN <<x>>
    ELSE IF RatLess(sorted[1].value, x.value) THEN <<x>> \o sorted
    ELSE <<sorted[1]>> \o InsertDesc(Tail(sorted), x)

RECURSIVE SortValuesDesc(_)
\* .sort_values(ascending=False); rows of equal value keep their relative order
\* (the sort pandas runs is stable on tables this small).
SortValuesDesc(rows) ==
    IF rows = <<>> THEN <<>>
    ELSE InsertDesc(SortValuesDesc(SubSeq(rows, 1, Len(rows) - 1)), rows[Len(rows)])

RECURSIVE FirstSeen(_, _, _)
\* The distinct values of a column in order of first appearance.
FirstSeen(df, col, seen) ==
    IF df = <<>> THEN <<>>
    ELSE IF df[1][col] \in seen THEN FirstSeen(Tail(df), col, seen)
    ELSE <<df[1][col]>> \o FirstSeen(Tail(df), col, seen \cup {df[1][col]})

\* df[col].value_counts().reset_index(): the count of every value that occurs,
\* largest first.
ValueCounts(df, col) ==
    LET keys == FirstSeen(df, col, {})
    IN  SortValuesDesc([i \in 1..Len(keys) |->
            [key |-> keys[i], value |-> Float(Len(GroupRows(df, col, keys[i])))]])

\* The tables of a run in which create_visualizations computed none.
NoRollups ==
    [computed |-> FALSE, monthly_rev |-> <<>>, rev_by_cat |-> <<>>, region_counts |-> <<>>,
     return_by_cat |-> <<>>, daily_sales |-> <<>>, cat_performance |-> <<>>,
     sunburst_data |-> <<>>]

\* The grouped tables create_visualizations derives from its df.
ComputeRollups(df) ==
    [computed        |-> TRUE,
     monthly_rev     |-> GroupBySum(df, "month", "revenue"),
     rev_by_cat      |-> SortValuesDesc(GroupBySum(df, "category", "revenue")),
     region_counts   |-> ValueCounts(df, "region"),
     return_by_cat   |-> SortValuesDesc(GroupBySumInt(df, "category", "returned")),
     daily_sales     |-> GroupBySize(df, "day"),
     cat_performance |-> GroupByAgg(df, "category"),
     sunburst_data   |-> GroupBySum(df, "region_category", "revenue")]

\* The page elements of the chart whose table is t.
ChartOrInfo(t, chart, info) == IF Len(t) > 0 THEN <<chart>> ELSE info

\* create_visualizations(df): the tables it computes and the elements it emits.
\* (The correlation matrix is drawn but its coefficients are not modelled.)
create_visualizations(df) ==
    IF Len(df) = 0
    THEN [rollups |-> NoRollups,
          ui      |-> <<"viz_header", "warning_no_data_for_visualization">>]
    ELSE LET t == ComputeRollups(df)
         IN  [rollups |-> t,
              ui |-> <<"viz_header">>
                     \o ChartOrInfo(t.monthly_rev, "chart_monthly_revenue", <<"info_no_monthly_data">>)
                     \o ChartOrInfo(t.rev_by_cat, "chart_revenue_by_category", <<"info_no_category_data">>)
                     \o <<"chart_price_distribution", "chart_price_by_category">>
                     \o ChartOrInfo(t.region_counts, "chart_sales_by_region", <<>>)
                     \o <<"chart_discount_vs_revenue">>
                     \o ChartOrInfo(t.return_by_cat, "chart_returns_by_category", <<>>)
                     \o <<"chart_quantity_distribution">>
                     \o ChartOrInfo(t.daily_sales, "chart_daily_sales", <<>>)
                     \o ChartOrInfo(t.cat_performance, "chart_category_performance", <<>>)
                     \o <<"chart_correlation_matrix">>
                     \o ChartOrInfo(t.sunburst_data, "chart_sunburst", <<>>)]

----------------------------------------------------------------------------
(* display_kpis and main *)

\* The six st.metric cards, drawn whatever the values are.
display_kpis(k) ==
    <<"metric_total_sales", "metric_total_revenue", "metric_avg_order_value",
      "metric_total_quantity", "metric_avg_discount", "metric_return_rate">>

\* The kpis of a run that ended before calculate_kpis.
NoKpis == [computed |-> FALSE]

\* The generator's value replaced by the view of the run before.
generate_sales_data_stale == IF filtered_df # <<>> THEN filtered_df ELSE cache[1]

\* @st.cache_data: the dataset main works on is the cached return value.
generate_sales_data == cache[1]

\* The frame apply_filters was given, as the call leaves it.  Line 116 takes a
\* copy, and each predicate (lines 119-139) binds filtered_df to the new frame
\* that boolean indexing returns: no statement of the function writes to df.
df_after_apply_filters_inplace(df, w) == apply_filters(df, w).df

df_after_apply_filters(df, w) == df

\* The frame calculate_kpis was given, as the call leaves it: lines 155-160
\* only read columns (len, sum, mean).
df_after_calculate_kpis(df) == df

\* The frame create_visualizations was given, as the call leaves it: every
\* groupby, value_counts and reset_index returns a new frame, and the two
\* assignments to .columns (lines 314, 404) rename columns of those new frames.
df_after_create_visualizations(df) == df

\* One run of main() on the dataset df with the sidebar returning w.
main(df, w) ==
    LET f == apply_filters(df, w)
    IN  IF f.raised
        THEN [raised |-> TRUE, df |-> df,
              date_range |-> f.date_range, filtered_df |-> <<>>,
              kpis |-> NoKpis,
              rollups |-> NoRollups, ui |-> <<"header", "sidebar", "exception">>]
        ELSE LET full == df_after_apply_filters(df, w)
                 k    == calculate_kpis(f.df)
                 fdf  == df_after_calculate_kpis(f.df)
                 viz  == create_visualizations(fdf)
                 left == IF Len(fdf) > 0 THEN df_after_create_visualizations(fdf) ELSE fdf
             IN  [raised      |-> FALSE,
                  df          |-> full,
                  date_range  |-> f.date_range,
                  filtered_df |-> left,
                  kpis        |-> k,
                  rollups     |-> IF Len(fdf) > 0 THEN viz.rollups ELSE NoRollups,
                  ui |-> <<"header", "sidebar", "success_showing_records">>
                         \o display_kpis(k)
                         \o (IF Len(fdf) > 0 THEN <<"download_filtered">> ELSE <<>>)
                         \o <<"download_full">>
                         \o (IF w.show_raw
                             THEN IF Len(fdf) > 0 THEN <<"raw_data">>
                                  ELSE <<"info_no_data_to_display">>
                             ELSE <<>>)
                         \o (IF Len(fdf) > 0 THEN viz.ui
                             ELSE <<"warning_no_data_with_current_filters">>)
                         \o <<"footer">>]

----------------------------------------------------------------------------
(* The sidebar: what each widget can return *)

CategoryOptions(df) == {"All"} \cup Unique(df, "category")
RegionOptions(df)   == {"All"} \cup Unique(df, "region")
ReturnOptions       == {"All", "Returned", "Not Returned"}

\* The calendar offers the days from min_value to max_value; the model explores
\* its first and its last day.
DateChoices(df) == {DtDate(DateMin(df)), DtDate(DateMax(df))}

DateInputs(df) ==
    {[kind |-> "tuple", v |-> p] :
        p \in {q \in DateChoices(df) \X DateChoices(df) : q[1] <= q[2]}}
    \cup {[kind |-> "tuple", v |-> <<d>>] : d \in DateChoices(df)}
    \cup {[kind |-> "tuple", v |-> <<>>]}
    \cup {[kind |-> "date", v |-> <<d>>] : d \in DateChoices(df)}
    \cup {[kind |-> "raises", v |-> <<>>]}

\* The slider runs from the smallest to the largest price of df; the model
\* explores its two end stops.
SliderStops(df) == {Min(Unique(df, "price")), Max(Unique(df, "price"))}

PriceInputs(df) ==
    {q \in SliderStops(df) \X SliderStops(df) : q[1] <= q[2]}

\* Every widget at its default value: the first run of a session.
DefaultWidgets(df) ==
    [category      |-> "All",
     region        |-> "All",
     date_input    |-> [kind |-> "tuple", v |-> <<DtDate(DateMin(df)), DtDate(DateMax(df))>>],
     price         |-> <<Min(Unique(df, "price")), Max(Unique(df, "price"))>>,
     return_status |-> "All",
     show_raw      |-> FALSE]

\* The sidebar after the user changed one widget.  (The sessions explored leave
\* the "Show Raw Data" box as it is.)
WidgetChanges(df, w) ==
    {[w EXCEPT !.category = c] : c \in CategoryOptions(df)}
    \cup {[w EXCEPT !.region = r] : r \in RegionOptions(df)}
    \cup {[w EXCEPT !.date_input = d] : d \in DateInputs(df)}
    \cup {[w EXCEPT !.price = p] : p \in PriceInputs(df)}
    \cup {[w EXCEPT !.return_status = s] : s \in ReturnOptions}

----------------------------------------------------------------------------
(* The session *)

NoWidgets == [category |-> "All", region |-> "All",
              date_input |-> [kind |-> "tuple", v |-> <<>>], price |-> <<0, 0>>,
              return_status |-> "All", show_raw |-> FALSE]

Init ==
    /\ pc = "generate"
    /\ records = <<>>
    /\ cache = <<>>
    /\ main_df = <<>>
    /\ widgets = NoWidgets
    /\ date_range = <<>>
    /\ filtered_df = <<>>
    /\ kpis = NoKpis
    /\ rollups = NoRollups
    /\ ui = <<>>
    /\ raised = FALSE

\* The outcome of a run of main becomes the state of the page.
Show(run) ==
    /\ main_df' = run.df
    /\ date_range' = run.date_range
    /\ filtered_df' = run.filtered_df
    /\ kpis' = run.kpis
    /\ rollups' = run.rollups
    /\ ui' = run.ui
    /\ raised' = run.raised

\* One iteration of the generator's loop, in the first run (cache miss).
GenerateRecord ==
    /\ pc = "generate"
    /\ Len(records) < NumRecords
    /\ \E d \in Draws : records' = Append(records, MakeRecord(Len(records), d))
    /\ UNCHANGED <<pc, cache, main_df, widgets, date_range, filtered_df, kpis, rollups, ui, raised>>

\* The rest of the first run: the generator returns (its local list is gone),
\* its value is cached, and main goes on with every widget at its default.
FirstRun ==
    /\ pc = "generate"
    /\ Len(records) = NumRecords
    /\ cache' = <<MakeDataFrame(records)>>
    /\ widgets' = DefaultWidgets(cache'[1])
    /\ Show(main(cache'[1], widgets'))
    /\ pc' = "idle"
    /\ records' = <<>>

\* The user changes one widget and Streamlit runs the script again: the
\* generator's value comes from the cache.
Rerun ==
    /\ pc = "idle"
    /\ \E w \in WidgetChanges(generate_sales_data, widgets) :
          /\ w # widgets
          /\ widgets' = w
          /\ Show(main(generate_sales_data, w))
    /\ UNCHANGED <<pc, records, cache>>

Next == GenerateRecord \/ FirstRun \/ Rerun

Spec == Init /\ [][Next]_vars

----------------------------------------------------------------------------
(* Vocabulary of the properties *)

\* A run of main has ended and did not raise.
Ran == pc = "idle" /\ ~raised

\* The Record Store: the cached dataset.
Store == cache[1]

\* The dataset of the three-record scenario.
ScenarioStore ==
    MakeDataFrame([i \in 1..Len(Scenario) |-> MakeRecord(i - 1, Scenario[i])])

\* The sidebar hands over a well-formed constraint set: a date pair and a price
\* pair, each with lower <= upper.
WellFormed(w) ==
    /\ w.date_input.kind = "tuple"
    /\ Len(w.date_input.v) = 2
    /\ w.date_input.v[1] <= w.date_input.v[2]
    /\ w.price[1] <= w.price[2]

\* Record r satisfies every active predicate: the selectors of w, the closed
\* date range [lo, hi] and the closed price range of w.
Satisfies(r, w, lo, hi) ==
    /\ w.category = "All" \/ r.category = w.category
    /\ w.region = "All" \/ r.region = w.region
    /\ lo <= r.date[1] /\ r.date[1] <= hi
    /\ w.price[1] <= r.price /\ r.price <= w.price[2]
    /\ w.return_status = "All" \/ (w.return_status = "Returned" <=> r.returned = 1)

\* view holds exactly the records of R that satisfy the predicates, each once,
\* in the order of R (sale_id numbers the records of R in their order).
IsExactView(view, R, w, lo, hi) ==
    /\ \A j \in 1..Len(view) : \E i \in 1..Len(R) : R[i] = view[j]
    /\ \A j \in 1..Len(view) : \A k \in 1..Len(view) :
          j < k => view[j].sale_id < view[k].sale_id
    /\ \A i \in 1..Len(R) :
          Satisfies(R[i], w, lo, hi) <=> \E j \in 1..Len(view) : view[j] = R[i]

\* The indices of the records of a view.
Rows(view) == 1..Len(view)

RECURSIVE Total(_, _, _)
\* The exact sum of column col over the rows S of a view.
Total(view, col, S) ==
    IF S = {} THEN Float(0)
    ELSE LET i == CHOOSE x \in S : TRUE
         IN  RatAdd(view[i][col], Total(view, col, S \ {i}))

RECURSIVE Count(_, _, _)
\* The sum of integer column col over the rows S of a view.
Count(view, col, S) ==
    IF S = {} THEN 0
    ELSE LET i == CHOOSE x \in S : TRUE
         IN  view[i][col] + Count(view, col, S \ {i})

----------------------------------------------------------------------------
(* C1 *)

\* C1: under a well-formed constraint set the view apply_filters returns is
\* exactly the records of the store that satisfy all active predicates ('All'
\* imposes none, date and price bounds are closed), in their original order,
\* none duplicated or added.
C1_FilteredViewIsExact ==
    (pc = "idle" /\ WellFormed(widgets)) =>
        /\ ~raised
        /\ IsExactView(filtered_df, Store, widgets,
                       widgets.date_input.v[1], widgets.date_input.v[2])

\* A run with two active selectors-or-ranges that keeps a record whose price
\* equals the lower price bound and whose date equals the upper date bound, and
\* drops another record.
C1_Witness ==
    /\ Ran /\ WellFormed(widgets)
    /\ widgets.category # "All"
    /\ Len(filtered_df) >= 2
    /\ Len(filtered_df) < Len(Store)
    /\ \E j \in Rows(filtered_df) : filtered_df[j].price = widgets.price[1]
    /\ \E j \in Rows(filtered_df) : filtered_df[j].date[1] = widgets.date_input.v[2]

----------------------------------------------------------------------------
(* C2 *)

ZeroKpis ==
    [total_sales |-> 0, total_revenue |-> Float(0), avg_order_value |-> Float(0),
     return_rate |-> Float(0), avg_discount |-> Float(0), total_quantity |-> 0]

\* C2: on an empty filtered view calculate_kpis returns the all-zero bundle: no
\* exception, no NaN.
C2_EmptyViewZeroKpis ==
    (pc = "idle" /\ filtered_df = <<>>) =>
        /\ ~raised
        /\ kpis = ZeroKpis
        /\ \A m \in {"total_revenue", "avg_order_value", "return_rate", "avg_discount"} :
              ~IsNaN(kpis[m])

\* A run whose constraints eliminated every record.
C2_Witness ==
    /\ Ran
    /\ filtered_df = <<>>
    /\ widgets # DefaultWidgets(Store)

----------------------------------------------------------------------------
(* C3 *)

\* The scenario filtered to Electronics, every other widget at its default.
ScenarioElectronics ==
    /\ pc = "idle"
    /\ Store = ScenarioStore
    /\ widgets = [DefaultWidgets(Store) EXCEPT !.category = "Electronics"]

\* C3: on a non-empty view, total_sales is the number of records, total_revenue
\* the sum of the stored revenue field, avg_order_value = total_revenue /
\* total_sales, return_rate = 100 * returned / total_sales, avg_discount =
\* 100 * sum(discount) / total_sales, total_quantity the sum of quantity; the
\* scenario filtered to Electronics gives 2, 340, 170, 0, 15, 3.
C3_KpisOfNonEmptyView ==
    /\ (Ran /\ filtered_df # <<>>) =>
        LET F == filtered_df
            n == Len(filtered_df)
        IN  /\ kpis.total_sales = n
            /\ kpis.total_revenue = Total(F, "revenue", Rows(F))
            /\ kpis.avg_order_value = RatDiv(kpis.total_revenue, Float(kpis.total_sales))
            /\ kpis.return_rate = Rat(100 * Count(F, "returned", Rows(F)), kpis.total_sales)
            /\ kpis.avg_discount =
                  RatDiv(RatMul(Float(100), Total(F, "discount", Rows(F))),
                         Float(kpis.total_sales))
            /\ kpis.total_quantity = Count(F, "quantity", Rows(F))
    /\ ScenarioElectronics =>
        /\ ~raised
        /\ kpis = [total_sales |-> 2, total_revenue |-> Float(340),
                   avg_order_value |-> Float(170), return_rate |-> Float(0),
                   avg_discount |-> Float(15), total_quantity |-> 3]

\* The scenario filtered to Electronics has run and kept two records, of which
\* the stored revenue differs from price * quantity.
C3_Witness ==
    /\ ScenarioElectronics /\ Ran
    /\ Len(filtered_df) = 2
    /\ \E j \in Rows(filtered_df) :
          filtered_df[j].revenue # Float(filtered_df[j].price * filtered_df[j].quantity)

----------------------------------------------------------------------------
(* C4 *)

DatePair(lo, hi) == [kind |-> "tuple", v |-> <<lo, hi>>]

\* date_input handed back a single bound: a one-element tuple or a bare date.
SingleBound(di) == (di.kind = "tuple" /\ Len(di.v) = 1) \/ di.kind = "date"

\* date_input handed back a pair with lower = upper.
Degenerate(di) == di.kind = "tuple" /\ Len(di.v) = 2 /\ di.v[1] = di.v[2]

\* C4: a date pair (D, D) keeps exactly the records dated D (that pass the other
\* predicates), and a one-element tuple <<D>> or a bare date D is normalised to
\* [D, D] and yields the view the pair (D, D) yields.
C4_SingleDayRange ==
    (pc = "idle" /\ (SingleBound(widgets.date_input) \/ Degenerate(widgets.date_input))) =>
        LET D == widgets.date_input.v[1]
        IN  /\ ~raised
            /\ date_range = <<D, D>>
            /\ IsExactView(filtered_df, Store, widgets, D, D)
            /\ filtered_df =
                  apply_filters(Store, [widgets EXCEPT !.date_input = DatePair(D, D)]).df

\* A bare date D, everything else at its default, kept the records of day D and
\* dropped the others.
C4_Witness ==
    /\ Ran
    /\ widgets.date_input.kind = "date"
    /\ widgets = [DefaultWidgets(Store) EXCEPT !.date_input = widgets.date_input]
    /\ Len(filtered_df) > 0
    /\ Len(filtered_df) < Len(Store)

----------------------------------------------------------------------------
(* C5 *)

\* The bounds the control supplied.
Supplied(di) == {di.v[i] : i \in 1..Len(di.v)}

\* C5: whatever the shape of the date input (no bound, one bound, a bare date,
\* a pair, a failing control), the run does not raise and the date predicate is
\* not skipped: date_range is a concrete closed range made of the supplied
\* bounds and the view is filtered by it and by the other active predicates.
C5_DateInputAlwaysNormalized ==
    pc = "idle" =>
        /\ ~raised
        /\ Len(date_range) = 2
        /\ date_range[1] <= date_range[2]
        /\ \A b \in Supplied(widgets.date_input) : b \in {date_range[1], date_range[2]}
        /\ IsExactView(filtered_df, Store, widgets, date_range[1], date_range[2])

----------------------------------------------------------------------------
(* C6 *)

\* C6: the filter predicates applied once more, with the same constraints, to
\* the filtered view return that view: same records, same order.
C6_FilterIdempotent ==
    Ran =>
        FilterPredicates(filtered_df, widgets.category, widgets.region, date_range,
                         widgets.price[1], widgets.price[2], widgets.return_status)
            = filtered_df

\* A run with two selectors set that kept some records and dropped others.
C6_Witness ==
    /\ Ran
    /\ widgets.region # "All"
    /\ widgets.return_status # "All"
    /\ Len(filtered_df) > 0
    /\ Len(filtered_df) < Len(Store)

----------------------------------------------------------------------------
(* C7 *)

\* The constraint sets equal to w but for one range, date or price, that
\* contains the range of w.
Widenings(R, w) ==
    {[w EXCEPT !.date_input = d] :
        d \in {x \in DateInputs(R) :
                 /\ x.kind = "tuple" /\ Len(x.v) = 2
                 /\ x.v[1] <= w.date_input.v[1] /\ w.date_input.v[2] <= x.v[2]}}
    \cup {[w EXCEPT !.price = q] :
            q \in {x \in PriceInputs(R) : x[1] <= w.price[1] /\ w.price[2] <= x[2]}}

\* Every record of view a is a record of view b.
Contained(a, b) == \A j \in 1..Len(a) : \E k \in 1..Len(b) : b[k] = a[j]

\* C7: widening one range constraint never loses a record: the view of the
\* wider constraint set contains the view of the narrower one and is at least
\* as long.
C7_WideningNeverShrinks ==
    (pc = "idle" /\ WellFormed(widgets)) =>
        /\ ~raised
        /\ \A w2 \in Widenings(Store, widgets) :
              LET wider == apply_filters(Store, w2)
              IN  /\ ~wider.raised
                  /\ Len(wider.df) >= Len(filtered_df)
                  /\ Contained(filtered_df, wider.df)

\* A run whose view is not empty and grows when the price range is widened.
C7_Witness ==
    /\ Ran /\ WellFormed(widgets)
    /\ Len(filtered_df) > 0
    /\ \E w2 \in Widenings(Store, widgets) :
          /\ w2.price # widgets.price
          /\ Len(apply_filters(Store, w2).df) > Len(filtered_df)

----------------------------------------------------------------------------
(* C8 *)

\* Table t maps every key that occurs in view F, once, to Agg of exactly the
\* rows of F carrying that key, and holds no other key.
IsRollup(t, F, Key(_), Agg(_)) ==
    /\ \A i \in Rows(F) : \E j \in 1..Len(t) : t[j].key = Key(F[i])
    /\ \A j \in 1..Len(t) : \E i \in Rows(F) : Key(F[i]) = t[j].key
    /\ \A j \in 1..Len(t) : \A k \in 1..Len(t) : j # k => t[j].key # t[k].key
    /\ \A j \in 1..Len(t) : t[j].value = Agg({i \in Rows(F) : Key(F[i]) = t[j].key})

\* The three-column table t (revenue, quantity, returned per category) likewise.
IsCategoryPerformance(t, F) ==
    /\ \A i \in Rows(F) : \E j \in 1..Len(t) : t[j].key = F[i].category
    /\ \A j \in 1..Len(t) : \E i \in Rows(F) : F[i].category = t[j].key
    /\ \A j \in 1..Len(t) : \A k \in 1..Len(t) : j # k => t[j].key # t[k].key
    /\ \A j \in 1..Len(t) :
          LET S == {i \in Rows(F) : F[i].category = t[j].key}
          IN  /\ t[j].revenue = Total(F, "revenue", S)
              /\ t[j].quantity = Count(F, "quantity", S)
              /\ t[j].returned = Count(F, "returned", S)

\* The seven grouped tables are the roll-ups of view F.
RollupsOf(t, F) ==
    /\ IsRollup(t.monthly_rev, F, LAMBDA r : r.month,
                LAMBDA S : Total(F, "revenue", S))
    /\ IsRollup(t.rev_by_cat, F, LAMBDA r : r.category,
                LAMBDA S : Total(F, "revenue", S))
    /\ IsRollup(t.return_by_cat, F, LAMBDA r : r.category,
                LAMBDA S : Float(Count(F, "returned", S)))
    /\ IsCategoryPerformance(t.cat_performance, F)
    /\ IsRollup(t.region_counts, F, LAMBDA r : r.region,
                LAMBDA S : Float(Cardinality(S)))
    /\ IsRollup(t.daily_sales, F, LAMBDA r : r.date[1],
                LAMBDA S : Float(Cardinality(S)))
    /\ IsRollup(t.sunburst_data, F, LAMBDA r : <<r.region, r.category>>,
                LAMBDA S : Total(F, "revenue", S))

\* Every grouped table of t is empty.
AllEmpty(t) ==
    /\ t.monthly_rev = <<>> /\ t.rev_by_cat = <<>> /\ t.region_counts = <<>>
    /\ t.return_by_cat = <<>> /\ t.daily_sales = <<>> /\ t.cat_performance = <<>>
    /\ t.sunburst_data = <<>>

\* The rows of a table as a mapping: the set of its (key, value) rows.
AsMapping(t) == {t[j] : j \in 1..Len(t)}

\* The general part of C8, shared by the claim as stated and as amended.
C8_General ==
    /\ (Ran /\ filtered_df # <<>>) =>
          /\ rollups.computed
          /\ RollupsOf(rollups, filtered_df)
    /\ (Ran /\ filtered_df = <<>>) => AllEmpty(ComputeRollups(filtered_df))

\* The whole scenario is in view.
ScenarioUnfiltered == pc = "idle" /\ Store = ScenarioStore /\ filtered_df = Store

\* C8 (amended): every roll-up of a view maps each key occurring in the view to
\* the aggregate over exactly the records with that key, holds no other key and
\* is empty for an empty view; on the scenario, revenue by region is
\* {North: 180, South: 50, East: 160}.
C8_RollupsAreGroupings ==
    /\ C8_General
    /\ ScenarioUnfiltered =>
          AsMapping(GroupBySum(filtered_df, "region", "revenue")) =
              {[key |-> "North", value |-> Float(180)],
               [key |-> "South", value |-> Float(50)],
               [key |-> "East",  value |-> Float(160)]}

\* C8 (as stated): the same, with revenue by region {North: 180, South: 45,
\* East: 160} on the scenario.
C8_AsStated ==
    /\ C8_General
    /\ ScenarioUnfiltered =>
          AsMapping(GroupBySum(filtered_df, "region", "revenue")) =
              {[key |-> "North", value |-> Float(180)],
               [key |-> "South", value |-> Float(45)],
               [key |-> "East",  value |-> Float(160)]}

\* The first run on the scenario: the whole store in view, its tables computed,
\* two records in the Electronics group.
C8_Witness ==
    /\ ScenarioUnfiltered /\ Ran
    /\ rollups.computed
    /\ Len(rollups.rev_by_cat) = 2
    /\ Len(rollups.region_counts) = 3

----------------------------------------------------------------------------
(* C9 *)

ChartElements ==
    {"chart_monthly_revenue", "chart_revenue_by_category", "chart_price_distribution",
     "chart_price_by_category", "chart_sales_by_region", "chart_discount_vs_revenue",
     "chart_returns_by_category", "chart_quantity_distribution", "chart_daily_sales",
     "chart_category_performance", "chart_correlation_matrix", "chart_sunburst"}

MetricElements ==
    {"metric_total_sales", "metric_total_revenue", "metric_avg_order_value",
     "metric_total_quantity", "metric_avg_discount", "metric_return_rate"}

Emitted == {ui[i] : i \in 1..Len(ui)}

\* C9: a run whose constraints eliminate every record ends in an explicit
\* no-data state: nothing raised, no chart drawn and no roll-up computed, a
\* no-data warning emitted, and no metric card presenting the zero KPIs.
C9_NoDataState ==
    (pc = "idle" /\ filtered_df = <<>>) =>
        /\ ~raised
        /\ ~rollups.computed
        /\ Emitted \cap ChartElements = {}
        /\ "warning_no_data_with_current_filters" \in Emitted
        /\ Emitted \cap MetricElements = {}

----------------------------------------------------------------------------
(* C10 *)

\* What the last run handed to the page is computed from the whole store and
\* the current widget values.
FreshlyComputed ==
    pc = "idle" =>
        LET f == apply_filters(Store, widgets)
        IN  /\ raised = f.raised
            /\ filtered_df = f.df
            /\ date_range = f.date_range
            /\ ~raised =>
                  /\ kpis = calculate_kpis(f.df)
                  /\ rollups = IF f.df # <<>> THEN ComputeRollups(f.df) ELSE NoRollups

\* C10: after any sequence of widget changes, the view, the KPIs and the
\* roll-ups of a run are those of the whole store under that run's widget
\* values (kpis = calculate_kpis(apply_filters(store))), nothing of an earlier
\* run is reused, and the one value a rerun carries over is the cached dataset,
\* which it leaves as it was.
C10_FreshRecomputation ==
    /\ []FreshlyComputed
    /\ [][pc = "idle" => (cache' = cache /\ pc' = "idle")]_vars

\* A fourth run at least: category, region and return status were set one
\* after the other, and the view shrank to a proper, non-empty part of the store.
C10_Witness ==
    /\ Ran
    /\ widgets.category # "All" /\ widgets.region # "All"
    /\ widgets.return_status # "All"
    /\ Len(filtered_df) > 0
    /\ Len(filtered_df) < Len(Store)

----------------------------------------------------------------------------
(* C11: filtering and aggregation leave their inputs as they were *)

\* After a run, main's df is still the whole store, in length, contents and
\* order, and the view is still what filtering the store gives, although
\* calculate_kpis and the roll-ups have been computed from it in between; so
\* calculate_kpis on the view as it is now gives the bundle on the page.
InputsLeftAsTheyWere ==
    pc = "idle" =>
        /\ main_df = Store
        /\ Len(main_df) = NumRecords
        /\ \A i \in 1..Len(main_df) : main_df[i].sale_id = i
        /\ ~raised =>
              /\ filtered_df = apply_filters(Store, widgets).df
              /\ kpis = calculate_kpis(filtered_df)

\* C11: across any sequence of widget changes the record store is left as it
\* was by filtering and aggregation: after every run main's df equals the
\* store (same records, same length, same order), the filtered view is the one
\* apply_filters returned although calculate_kpis and the roll-ups have read
\* it, calculate_kpis on that view again returns the bundle shown, and no
\* rerun changes the store or the df it hands on.
C11_StoreAndViewUnchanged ==
    /\ []InputsLeftAsTheyWere
    /\ [][pc = "idle" => (cache' = cache /\ main_df' = main_df)]_vars

\* A run whose category selector cut the store down to a proper, non-empty
\* part, from which KPIs and roll-ups were computed.
C11_Witness ==
    /\ Ran
    /\ widgets.category # "All"
    /\ Len(filtered_df) > 0
    /\ Len(filtered_df) < Len(main_df)
    /\ rollups.computed
    /\ kpis.total_sales = Len(filtered_df)

----------------------------------------------------------------------------
(* C12: the roll-ups add up to the KPIs *)

\* The groups of table t, keyed by `by`, partition the view F: no key occurs
\* twice in t, every key of t occurs in F, and every record of F has its key in t.
Partitions(t, F, by) ==
    /\ \A i, j \in Rows(t) : t[i].key = t[j].key => i = j
    /\ \A i \in Rows(t) : \E n \in Rows(F) : KeyOf(F[n], by) = t[i].key
    /\ \A n \in Rows(F) : \E i \in Rows(t) : t[i].key = KeyOf(F[n], by)

\* The number of returned records of a view.
ReturnedIn(F) == Cardinality({n \in Rows(F) : F[n].returned = 1})

\* C12: for every non-empty filtered view the groups of each roll-up partition
\* the view, so the per-category revenue sums add up to total_revenue, the
\* per-category quantity sums to total_quantity, the per-category returned
\* sums to the number of returned records, of which return_rate is the
\* percentage, and the per-region counts and the per-day counts each add up to
\* total_sales.
C12_RollupsAddUpToKpis ==
    (Ran /\ filtered_df # <<>>) =>
        LET F  == filtered_df
            t  == rollups
            cp == t.cat_performance
        IN  /\ t.computed
            /\ Partitions(t.rev_by_cat, F, "category")
            /\ Partitions(t.return_by_cat, F, "category")
            /\ Partitions(cp, F, "category")
            /\ Partitions(t.region_counts, F, "region")
            /\ Partitions(t.daily_sales, F, "day")
            /\ Total(t.rev_by_cat, "value", Rows(t.rev_by_cat)) = kpis.total_revenue
            /\ Total(cp, "revenue", Rows(cp)) = kpis.total_revenue
            /\ Count(cp, "quantity", Rows(cp)) = kpis.total_quantity
            /\ Count(cp, "returned", Rows(cp)) = ReturnedIn(F)
            /\ Total(t.return_by_cat, "value", Rows(t.return_by_cat)) = Float(ReturnedIn(F))
            /\ kpis.return_rate = Rat(100 * Count(cp, "returned", Rows(cp)), kpis.total_sales)
            /\ Total(t.region_counts, "value", Rows(t.region_counts)) = Float(kpis.total_sales)
            /\ Total(t.daily_sales, "value", Rows(t.daily_sales)) = Float(kpis.total_sales)

\* A view of the whole store with two categories, one of them holding two
\* records, several regions and days, and a returned record.
C12_Witness ==
    /\ Ran
    /\ Len(filtered_df) = NumRecords
    /\ Len(rollups.cat_performance) = 2
    /\ \E i \in Rows(rollups.cat_performance) : rollups.cat_performance[i].quantity >= 3
    /\ Len(rollups.region_counts) >= 2
    /\ Len(rollups.daily_sales) >= 2
    /\ ReturnedIn(filtered_df) >= 1
    /\ ReturnedIn(filtered_df) < Len(filtered_df)

====
